---- MODULE Spec2Model ----
(***************************************************************************)
(* ATLAS mission state machine (src/agent.py) with the search loops, the   *)
(* visual servo loop (src/navigation.py), the camera (src/vision.py), the  *)
(* gripper (src/arm_control.py) and the planner (src/llm_interface.py).    *)
(*                                                                         *)
(* Control position: pc = "tick" is the top of the while loop of           *)
(* Agent.run, "search_cont" / "search_wp" / "servo" are the heads of the   *)
(* three inner loops, "exited" is after the run loop has terminated.       *)
(* A handler without an inner loop is one action; a handler with an inner  *)
(* loop is one action per loop iteration, the code after the loop being    *)
(* part of the iteration that leaves it.                                   *)
(*                                                                         *)
(* Scaling: lengths of the search area are in units of step_m (0.5 m);     *)
(* turn angles are in tenths of a degree, so error_x * turn_gain (0.1      *)
(* degree per pixel) is the integer error_x.                               *)
(*                                                                         *)
(* One process interrupt is delivered per process; the teardown itself is  *)
(* not interrupted.                                                        *)
(***************************************************************************)
EXTENDS Integers, Sequences, FiniteSets, TLC

VARIABLES
    state,              \* Agent.state
    pc,                 \* control position inside Agent.run
    use_voice,          \* Agent.use_voice (self.voice is not None)
    arg_laptop,         \* the use_laptop_camera argument given to Agent.__init__
    use_laptop_camera,  \* the attribute Agent.use_laptop_camera read by _searching_state
    current_command,    \* Agent.current_command
    current_plan,       \* Agent.current_plan
    camera,             \* VisionSystem.camera
    target,             \* VisionSystem.target_object_description / target_color
    breadcrumb_trail,   \* NavigationPlanner.breadcrumb_trail
    is_holding,         \* GripperController.is_holding
    gripper_angle,      \* RoboticArm.servo_positions['gripper']
    iteration,          \* servo_to_target: iteration (read after the return until the next handler starts)
    wp_index,           \* _searching_state: index of the next waypoint of the sweep
    last_cmd,           \* the motion command the last servo iteration issued
    calls,              \* port calls made by the handler of the current/last tick
    last,               \* the last finished tick: [from, outcome, to]
    visited,            \* states entered since the last command was accepted
    teardown,           \* teardown steps performed so far, in order
    nav_log,            \* targets of MotorController.navigate_to_point in the current/last tick
    call                \* the call of a library function under examination: [fn, args, ret]

vars == << state, pc, use_voice, arg_laptop, use_laptop_camera,
           current_command, current_plan, camera, target, breadcrumb_trail,
           is_holding, gripper_angle, iteration, wp_index, last_cmd,
           calls, last, visited, teardown, nav_log, call >>

-----------------------------------------------------------------------------
(* Bounds of the model *)

MaxTrail == 1          \* a waypoint sweep starts only with at most this many breadcrumbs recorded
MaxRecorded == 3       \* breadcrumbs recorded when NavigationPlanner is exercised on its own
MaxCoord == 1          \* largest coordinate of a breadcrumb recorded that way
MaxSide == 4           \* largest width and height given to generate_lawnmower_path
MaxGrid == 2           \* largest grid coordinate given to navigate_to_point
MaxStep == 3           \* largest step given to generate_lawnmower_path
MaxPixelError == 460   \* largest |error_x| given to VisualServoing
MaxGain == 2           \* largest turn gain, in tenths of a degree per pixel

-----------------------------------------------------------------------------
(* Program constants *)

SearchWidth == 10      \* generate_lawnmower_path(5, ...): 5 m in steps of 0.5 m
SearchHeight == 6      \* generate_lawnmower_path(.., 3, ..): 3 m in steps of 0.5 m
SearchStep == 1        \* generate_lawnmower_path(.., .., 0.5): one step
max_iterations == 100
center_tolerance_px == 50
target_distance_cm == 30
max_turn == 450        \* 45 degrees, in tenths of a degree
turn_gain == 1         \* 0.1 degree per pixel, in tenths of a degree per pixel
GripperClosed == 180
GripperOpen == 0
min_safe_distance == 3 \* ObstacleAvoidance.min_safe_distance = 0.3 m, in units of 0.1 m

States == { "IDLE", "LISTENING", "PLANNING", "SEARCHING", "APPROACHING",
            "GRASPING", "RETURNING", "TASK_COMPLETE" }

\* The states Agent.run dispatches on.
HandledStates == { "IDLE", "PLANNING", "SEARCHING", "APPROACHING",
                   "GRASPING", "RETURNING", "TASK_COMPLETE" }

QuitWords == { "quit", "exit", "q" }

\* Texts the operator may type or say.
Commands == { "fetch the red box", "", "quit", "QUIT" }

\* str.lower() on the command texts of the model.
Lower(c) == IF c = "QUIT" THEN "quit" ELSE c

\* Plans are named by their object_description. "EMPTY" is {}, "NONE" is None,
\* "NULLDESC" is a plan whose object_description is null. The plan "phone" has
\* a null object_color.
GoodPlans == { "red box", "object", "phone" }
PlanValues == { "EMPTY", "NONE", "NULLDESC" } \cup GoodPlans

\* A test that takes every value for a plan.
TruthyAny(plan) == TRUE

\* Python truthiness of current_plan.
Truthy(plan) == plan \notin { "EMPTY", "NONE" }

\* extract_object_info: the keyword fallback, which always returns a plan.
extract_object_info(c) ==
    IF Lower(c) = "fetch the red box" THEN "red box" ELSE "object"

\* get_plan_from_command: what the call can return for one model response:
\* a parsed plan (a missing field is filled in, a null one is kept), or None
\* for an API error or unparsable text.
LLMResponses ==
    { "json_red_box", "json_null_color", "json_null_description", "malformed",
      "api_error" }
get_plan_from_command(resp) ==
    CASE resp = "json_red_box"          -> "red box"
      [] resp = "json_null_color"       -> "phone"
      [] resp = "json_null_description" -> "NULLDESC"
      [] OTHER                          -> "NONE"

\* plan.get('object_description') and plan.get('object_color'); "none" is None.
ObjectDescription(plan) == plan
ObjectColor(plan) ==
    CASE plan = "red box" -> "red"
      [] plan = "object"  -> "unknown"
      [] OTHER            -> "none"

-----------------------------------------------------------------------------
(* Camera: "none" is None, "open" an opened capture, "closed" a capture    *)
(* object that is not opened (failed to open, or released).                *)

\* A release that leaves the capture open.
release_camera_keeps(cam) == cam

release_camera(cam) == IF cam = "none" THEN "none" ELSE "closed"

\* The target of a fresh VisionSystem: description and colour are None.
Unset == [ description |-> "none", color |-> "none" ]

\* The colour word of color_ranges found in a description (vision.py lines
\* 127-131), "none" when there is none.
ColorIn(description) == IF description = "red box" THEN "red" ELSE "none"

\* A set_target_object that forgets the old colour when it is given none.
set_target_object_resets(old, description, color) ==
    [ description |-> description,
      color |-> IF color # "none" THEN color ELSE ColorIn(description) ]

\* VisionSystem.set_target_object (vision.py lines 116-135): the colour given,
\* or else the colour word of the description, or else the colour it had.
set_target_object(old, description, color) ==
    [ description |-> description,
      color |-> IF color # "none" THEN color
                ELSE IF ColorIn(description) # "none" THEN ColorIn(description)
                ELSE old.color ]

initialize_camera(opened) == IF opened THEN "open" ELSE "closed"

\* capture_frame returns a frame only from an opened camera whose read succeeds.
capture_frame(cam, read_ok) == cam = "open" /\ read_ok

\* find_target_object returns None when no target colour is set.
find_target_object(tgt, seen) == tgt.color # "none" /\ seen

-----------------------------------------------------------------------------
(* NavigationPlanner *)

\* A sweep that runs one step past the height.
RECURSIVE LawnRowsOvershoot(_, _, _, _, _)
LawnRowsOvershoot(w, h, s, y, direction) ==
    IF y <= h + s
      THEN (IF direction = 1 THEN << <<0, y>>, <<w, y>> >>
                             ELSE << <<w, y>>, <<0, y>> >>)
           \o LawnRowsOvershoot(w, h, s, y + s, -direction)
      ELSE << >>

RECURSIVE LawnRows(_, _, _, _, _)
LawnRows(w, h, s, y, direction) ==
    IF y <= h
      THEN (IF direction = 1 THEN << <<0, y>>, <<w, y>> >>
                             ELSE << <<w, y>>, <<0, y>> >>)
           \o LawnRows(w, h, s, y + s, -direction)
      ELSE << >>

generate_lawnmower_path(w, h, s) == LawnRows(w, h, s, 0, 1)

(* The arguments of generate_lawnmower_path are Python floats (the type     *)
(* hints of its signature), that is IEEE 754 binary64 numbers. A number is   *)
(* held here as the whole number of units of 2^-56 it is worth, in two       *)
(* limbs << hi, lo >> worth hi * 2^28 + lo. Every value below is a whole     *)
(* number of such units.                                                     *)

LimbBits == 28         \* bits of the low limb
Significand == 53      \* significant bits of a binary64

LimbBase == 2 ^ LimbBits

FloatZero == << 0, 0 >>

\* The binary64 nearest to the literal 0.1: 0x1.999999999999ap-4.
Float_0_1 == << 26843545, 161061274 >>

\* The binary64 nearest to the literal 0.2: 0x1.999999999999ap-3.
Float_0_2 == << 53687091, 53687092 >>

\* The binary64 nearest to the literal 0.3: 0x1.3333333333333p-2.
Float_0_3 == << 80530636, 214748364 >>

\* 0.25, exact in binary.
Float_0_25 == << 67108864, 0 >>

\* The binary64 nearest to the literal 0.6: 0x1.3333333333333p-1.
Float_0_6 == << 161061273, 161061272 >>

\* The sum of two numbers, limb by limb with carry, without rounding.
BitsAdd(a, b) ==
    << a[1] + b[1] + ((a[2] + b[2]) \div LimbBase), (a[2] + b[2]) % LimbBase >>

\* The number of bits of n: 0 for 0, else the position of the leading one.
BitLength(n) ==
    IF n = 0 THEN 0 ELSE CHOOSE k \in 1..30 : 2 ^ (k - 1) <= n /\ n \div 2 < 2 ^ (k - 1)

Msb(a) == IF a[1] = 0 THEN BitLength(a[2]) ELSE LimbBits + BitLength(a[1])

\* Rounding to the nearest number of Significand bits, ties to even.
RoundNearestEven(a) ==
    LET d == Msb(a) - Significand
    IN  IF d <= 0
          THEN a
          ELSE LET ulp == 2 ^ d
                   rest == a[2] % ulp
                   trunc == << a[1], a[2] - rest >>
                   odd == (a[2] \div ulp) % 2 = 1
               IN  IF 2 * rest > ulp \/ (2 * rest = ulp /\ odd)
                     THEN BitsAdd(trunc, << 0, ulp >>)
                     ELSE trunc

\* y + step_m on floats: the exact sum, rounded.
FloatAdd(a, b) == RoundNearestEven(BitsAdd(a, b))

\* a <= b.
BitsLeq(a, b) == a[1] < b[1] \/ (a[1] = b[1] /\ a[2] <= b[2])

\* k times s, without rounding.
RECURSIVE ExactMultiple(_, _)
ExactMultiple(s, k) ==
    IF k = 0 THEN FloatZero ELSE BitsAdd(ExactMultiple(s, k - 1), s)

\* The loop of generate_lawnmower_path on float height and step.
RECURSIVE LawnRowsFloat(_, _, _, _, _)
LawnRowsFloat(w, h, s, y, direction) ==
    IF BitsLeq(y, h)
      THEN (IF direction = 1 THEN << <<0, y>>, <<w, y>> >>
                             ELSE << <<w, y>>, <<0, y>> >>)
           \o LawnRowsFloat(w, h, s, FloatAdd(y, s), -direction)
      ELSE << >>

generate_lawnmower_path_float(w, h, s) == LawnRowsFloat(w, h, s, FloatZero, 1)

\* A breadcrumb put at the front of the trail.
record_breadcrumb_front(trail, p) == << p >> \o trail

record_breadcrumb(trail, p) == Append(trail, p)

Reverse(s) == [ i \in 1..Len(s) |-> s[Len(s) + 1 - i] ]

\* A return path in the order of recording.
get_return_path_forward(trail) == trail

get_return_path(trail) == IF trail = << >> THEN << >> ELSE Reverse(trail)

Waypoints == generate_lawnmower_path(SearchWidth, SearchHeight, SearchStep)

-----------------------------------------------------------------------------
(* History kept for the properties *)

NoTick == [ from |-> "-", outcome |-> "-", to |-> "-" ]

Tick(from, outcome, to) == [ from |-> from, outcome |-> outcome, to |-> to ]

\* The order of a mission in which nothing goes wrong.
FullOrder == << "PLANNING", "SEARCHING", "APPROACHING", "GRASPING", "RETURNING",
               "TASK_COMPLETE", "IDLE" >>

IsPrefix(v, w) == Len(v) <= Len(w) /\ SubSeq(w, 1, Len(v)) = v

\* visited is the sequence of states entered since the command was accepted, as
\* long as it follows FullOrder; << "OFF" >> once the handlers left that order;
\* << "ADVERSE" >> once a port reported a negative result in this mission (no
\* plan, camera not opened, frame not read, nothing detected, target not yet in
\* reach, abort key, grip check false, display failure, end of input, interrupt).
Spoiled == << "ADVERSE" >>
OffOrder == << "OFF" >>

Enter(v, from, to, bad) ==
    IF v = Spoiled \/ bad THEN Spoiled
    ELSE IF from = to THEN v
    ELSE IF IsPrefix(Append(v, to), FullOrder) THEN Append(v, to)
    ELSE OffOrder

\* A teardown that releases the camera before the drivetrain is stopped.
ShutdownCameraFirst(voice) ==
    << "release", "stop", "home" >> \o (IF voice THEN << "voice" >> ELSE << >>)

\* No library function has been called on its own.
NoCall == [ fn |-> "none", args |-> << >>, ret |-> << >> ]

\* Agent._shutdown: stop drivetrain, arm home, release camera, voice notice.
ShutdownSteps(voice) ==
    << "stop", "home", "release" >> \o (IF voice THEN << "voice" >> ELSE << >>)

-----------------------------------------------------------------------------
(* Agent.run, lines 68-94 *)

Config == << use_voice, arg_laptop, use_laptop_camera >>

\* A handler returned: the tick is over and the loop is back at its top.
Return(from, outcome, to, bad) ==
    /\ state' = to
    /\ pc' = "tick"
    /\ last' = Tick(from, outcome, to)
    /\ visited' = Enter(visited, from, to, bad)
    /\ wp_index' = 1

\* The same for a handler that leaves no loop counter of the servo loop behind.
Finish(from, outcome, to, bad) ==
    /\ Return(from, outcome, to, bad)
    /\ iteration' = 0

\* A recovery into the state no arm of the dispatch handles.
RecoverToListening == "LISTENING"

\* except Exception (lines 91-94): the state the recovery sets.
FaultRecovery == "IDLE"

\* A recovery that gives the camera up.
RecoveredCameraReleased(cam) == release_camera(cam)

\* except Exception (lines 91-94) prints and assigns the state: the camera is
\* as the handler left it.
RecoveredCamera(cam) == cam

\* A handler raised, with the effects the caller lists already applied.
RaiseIn(from, bad) ==
    /\ Finish(from, "fault", FaultRecovery, bad)
    /\ camera' = RecoveredCamera(camera)

\* Agent._shutdown, lines 369-386.
DoShutdown ==
    /\ teardown' = teardown \o ShutdownSteps(use_voice)
    /\ camera' = release_camera(camera)
    /\ gripper_angle' = GripperOpen
    /\ pc' = "exited"
    /\ iteration' = 0
    /\ wp_index' = 1

\* except KeyboardInterrupt (lines 87-90). The interrupt arrives while a handler
\* or the pacing sleep runs: at the top of a tick or at the head of an inner loop.
Interrupt ==
    /\ pc # "exited"
    /\ UNCHANGED nav_log
    /\ DoShutdown
    /\ last' = Tick(state, "interrupt", state)
    /\ visited' = Spoiled
    /\ UNCHANGED << state, Config, call, current_command, current_plan, target,
                    breadcrumb_trail, is_holding, last_cmd, calls >>

-----------------------------------------------------------------------------
(* Agent._idle_state, lines 96-112 *)

\* Lines 108-110: the text-mode test for a quit word.
TextCommandQuits(command) == Lower(command) \in QuitWords

\* Text mode, a quit word: _shutdown() then exit(0); SystemExit leaves run().
IdleQuit ==
    /\ pc = "tick" /\ state = "IDLE" /\ ~use_voice
    /\ nav_log' = << >>
    /\ \E command \in Commands :
          /\ TextCommandQuits(command)
          /\ DoShutdown
          /\ last' = Tick("IDLE", "quit", "IDLE")
          /\ calls' = << >>
          /\ visited' = Spoiled
    /\ UNCHANGED << state, Config, call, current_command, current_plan, target,
                    breadcrumb_trail, is_holding, last_cmd >>

\* Whether the handler hands the command to PLANNING: in voice mode any non-empty
\* text (line 102), in text mode any text that is not a quit word.
Accepts(voice, command) ==
    IF voice THEN command # "" ELSE ~TextCommandQuits(command)

IdleState ==
    /\ pc = "tick" /\ state = "IDLE"
    /\ nav_log' = << >>
    /\ \E command \in Commands, eof \in BOOLEAN :
          /\ use_voice \/ ~TextCommandQuits(command)
          /\ calls' = << >>
          /\ IF eof
               THEN \* input() raises EOFError
                    /\ RaiseIn("IDLE", TRUE)
                    /\ UNCHANGED current_command
               ELSE IF Accepts(use_voice, command)
               THEN /\ current_command' = command
                    /\ state' = "PLANNING"
                    /\ pc' = "tick"
                    /\ last' = Tick("IDLE", "command", "PLANNING")
                    /\ visited' = << "PLANNING" >>
                    /\ UNCHANGED << camera, iteration, wp_index >>
               ELSE \* voice mode, nothing heard: the handler returns, still IDLE
                    /\ last' = Tick("IDLE", "waiting", "IDLE")
                    /\ UNCHANGED << current_command, state, pc, visited,
                                    camera, iteration, wp_index >>
    /\ UNCHANGED << Config, call, current_plan, target, breadcrumb_trail,
                    is_holding, gripper_angle, last_cmd, teardown >>

-----------------------------------------------------------------------------
(* Agent._planning_state, lines 115-159 *)

Say(voice, text) == IF voice THEN << text >> ELSE << >>

\* Lines 122-131: the plan assigned to current_plan; key is whether
\* config.GEMINI_API_KEY is set. An Exception escaping the planner call leaves
\* None.
PlanFor(raised, key, resp, command) ==
    IF raised THEN "NONE"
    ELSE IF key THEN get_plan_from_command(resp)
    ELSE extract_object_info(command)

\* A handler that goes by the camera alone and does not test the plan.
PlanningNextIgnoresPlan(plan, opened) == IF opened THEN "SEARCHING" ELSE "IDLE"

\* A handler that goes on to the search whether or not the camera opened.
PlanningNextIgnoresCamera(plan, opened) == IF Truthy(plan) THEN "SEARCHING" ELSE "IDLE"

\* Line 133 and lines 150-154: the state the handler ends in.
PlanningNext(plan, opened) ==
    IF Truthy(plan)
      THEN (IF opened THEN "SEARCHING" ELSE "IDLE")
      ELSE "IDLE"

PlanningState ==
    /\ pc = "tick" /\ state = "PLANNING"
    /\ nav_log' = << >>
    /\ \E raised \in BOOLEAN, key \in BOOLEAN, resp \in LLMResponses, opened \in BOOLEAN :
          LET plan == PlanFor(raised, key, resp, current_command) IN
          /\ current_plan' = plan
          /\ IF plan = "NULLDESC"
               THEN \* set_target_object: None.lower() raises AttributeError
                    /\ RaiseIn("PLANNING", TRUE)
                    /\ calls' = Say(use_voice, "say:analyzing") \o << "plan" >>
                    /\ UNCHANGED target
               ELSE IF Truthy(plan)
               THEN /\ target' = set_target_object(target, ObjectDescription(plan),
                                                    ObjectColor(plan))
                    /\ camera' = initialize_camera(opened)
                    /\ calls' = Say(use_voice, "say:analyzing")
                                  \o << "plan", "set_target" >>
                                  \o Say(use_voice, "say:i_will")
                                  \o << "init_camera" >>
                                  \o (IF opened THEN << >> ELSE << "print:camera_failed" >>)
                    /\ Finish("PLANNING", IF opened THEN "planned" ELSE "camera_failed",
                              PlanningNext(plan, opened), ~opened)
               ELSE /\ calls' = Say(use_voice, "say:analyzing")
                                  \o << "plan", "print:planning_failed" >>
                                  \o Say(use_voice, "say:not_understood")
                    /\ Finish("PLANNING", "no_plan", PlanningNext(plan, opened), TRUE)
                    /\ UNCHANGED << target, camera >>
    /\ UNCHANGED << Config, call, current_command, breadcrumb_trail, is_holding,
                    gripper_angle, last_cmd, teardown >>

-----------------------------------------------------------------------------
(* Agent._searching_state, lines 161-270 *)

\* Line 172 reads self.use_laptop_camera, which Agent.__init__ never assigns:
\* AttributeError, after the announcement of lines 163-168.
SearchingAttributeError ==
    /\ pc = "tick" /\ state = "SEARCHING"
    /\ nav_log' = << >>
    /\ use_laptop_camera = "unset"
    /\ calls' = Say(use_voice, "say:searching")
    /\ RaiseIn("SEARCHING", FALSE)
    /\ UNCHANGED << Config, call, current_command, current_plan, target,
                    breadcrumb_trail, is_holding, gripper_angle, last_cmd,
                    teardown >>

\* Line 172: the branch taken when the attribute exists.
SearchMode(attr) == IF attr = "true" THEN "search_cont" ELSE "search_wp"

SearchingBegin ==
    /\ pc = "tick" /\ state = "SEARCHING"
    /\ nav_log' = << >>
    /\ use_laptop_camera # "unset"
    /\ SearchMode(use_laptop_camera) = "search_wp" => Len(breadcrumb_trail) <= MaxTrail
    /\ calls' = Say(use_voice, "say:searching")
    /\ pc' = SearchMode(use_laptop_camera)
    /\ wp_index' = 1
    /\ iteration' = 0
    /\ UNCHANGED << state, Config, call, current_command, current_plan, camera, target,
                    breadcrumb_trail, is_holding, gripper_angle,
                    last_cmd, last, visited, teardown >>

\* A continuous loop that gives the mission up whatever it saw.
ContinuousNextIdle(found) == "IDLE"

\* Lines 186-200 and 222-225: the state the continuous loop leaves the handler in.
ContinuousNext(found) == IF found THEN "APPROACHING" ELSE "IDLE"

\* What one pass of a search loop comes to: outcome is how it ends ("continue"
\* when the loop goes on) and events the calls it makes, in order.
Pass(outcome, events) == [ outcome |-> outcome, events |-> events ]

\* One iteration of the continuous loop (lines 179-220): frame and detection
\* tell whether capture_frame and find_target_object returned a value, gui_ok
\* whether cv2.imshow returned, key_q whether cv2.waitKey read 'q'.
ContinuousIteration(voice, frame, detection, gui_ok, key_q) ==
    IF ~frame
      THEN Pass("camera_error", << "capture_frame" >>)                \* 218-220
    ELSE IF detection
      THEN (IF gui_ok                                                  \* 185-200
              THEN Pass("found", << "capture_frame", "detect:hit" >>
                                   \o Say(voice, "say:found") \o << "imshow" >>)
              ELSE Pass("fault", << "capture_frame", "detect:hit" >>
                                   \o Say(voice, "say:found")))
    ELSE IF ~gui_ok
      THEN Pass("fault", << "capture_frame", "detect:none" >>)        \* 203-204
    ELSE IF key_q
      THEN Pass("aborted", << "capture_frame", "detect:none", "imshow", "key:q" >>)
    ELSE Pass("continue", << "capture_frame", "detect:none", "imshow", "key:none" >>)

\* One iteration of the continuous loop and, when it leaves the loop, lines
\* 222-225. calls holds the announcement and the calls of the latest iteration.
SearchContIter ==
    /\ pc = "search_cont"
    /\ UNCHANGED nav_log
    /\ \E read_ok \in BOOLEAN, seen \in BOOLEAN, key_q \in BOOLEAN, gui_ok \in BOOLEAN :
          LET frame == capture_frame(camera, read_ok)
              detection == frame /\ find_target_object(target, seen)
              it == ContinuousIteration(use_voice, frame, detection, gui_ok, key_q)
              heard == Say(use_voice, "say:searching") \o it.events
          IN
          IF it.outcome = "continue"
            THEN /\ visited' = Spoiled
                 /\ calls' = heard
                 /\ UNCHANGED << camera, state, pc, last, iteration, wp_index >>
          ELSE IF it.outcome = "fault"
            THEN /\ RaiseIn("SEARCHING", TRUE)
                 /\ calls' = heard
          ELSE IF it.outcome = "found"
            THEN /\ Finish("SEARCHING", "found", ContinuousNext(TRUE), FALSE)
                 /\ calls' = heard
                 /\ UNCHANGED camera
            ELSE \* not object_found: lines 222-225
                 /\ camera' = release_camera(camera)
                 /\ Finish("SEARCHING", it.outcome, ContinuousNext(FALSE), TRUE)
                 /\ calls' = heard \o << "print:search_aborted", "release_camera" >>
    /\ UNCHANGED << Config, call, current_command, current_plan, target,
                    breadcrumb_trail, is_holding, gripper_angle, last_cmd,
                    teardown >>

\* Lines 256-258 and 263-270: the state the waypoint branch leaves the handler
\* in. Lines 269-270 run after the loop whether or not the object was found.
WaypointNext(found) == "IDLE"

\* ObstacleAvoidance.get_distance, in units of 0.1 m: the simulation draws from
\* 0.5 m to 2.0 m; the ultrasonic sensor it stands for reads from 0.02 m.
SensorReadings == { 2, 3, 5, 20 }

\* ObstacleAvoidance.is_path_clear (motor_control.py lines 225-231).
is_path_clear(distance) == distance > min_safe_distance

\* A maneuver that turns right when both sides are clear.
avoid_obstacle_prefers_right(left, right) ==
    << "stop", "move_backward", "is_path_clear:left", "is_path_clear:right" >>
    \o << IF is_path_clear(right) THEN "turn_right:45"
          ELSE IF is_path_clear(left) THEN "turn_left:45"
          ELSE "turn_right:180" >>

\* ObstacleAvoidance.avoid_obstacle (motor_control.py lines 233-260): the calls
\* it makes, in order, given the readings of the left and the right sensor.
avoid_obstacle(left, right) ==
    << "stop", "move_backward", "is_path_clear:left", "is_path_clear:right" >>
    \o << IF is_path_clear(left) /\ ~is_path_clear(right) THEN "turn_left:45"
          ELSE IF is_path_clear(right) /\ ~is_path_clear(left) THEN "turn_right:45"
          ELSE IF is_path_clear(left) /\ is_path_clear(right) THEN "turn_left:45"
          ELSE "turn_right:180" >>

\* A leg that records the breadcrumb before it drives to the waypoint.
WaypointLegRecordsFirst(voice, clear, frame, detection) ==
    << IF clear THEN "clear:true" ELSE "clear:false" >>
    \o (IF clear THEN << >> ELSE << "avoid_obstacle" >>)
    \o << "record_breadcrumb", "navigate", "capture_frame" >>
    \o (IF ~frame THEN << >>
        ELSE IF detection THEN << "detect:hit" >> \o Say(voice, "say:found")
        ELSE << "detect:none" >>)

\* The calls of one leg of the sweep, in order (lines 235-258).
WaypointLeg(voice, clear, frame, detection) ==
    << IF clear THEN "clear:true" ELSE "clear:false" >>               \* 236
    \o (IF clear THEN << >> ELSE << "avoid_obstacle" >>)              \* 238
    \o << "navigate", "record_breadcrumb", "capture_frame" >>         \* 241-245
    \o (IF ~frame THEN << >>
        ELSE IF detection THEN << "detect:hit" >> \o Say(voice, "say:found")
        ELSE << "detect:none" >>)                                     \* 246-258

\* One leg of the sweep (lines 232-261) and, when it leaves the loop, lines
\* 263-270. calls holds the announcement and the calls of the latest leg.
SearchWpLeg ==
    /\ pc = "search_wp"
    /\ \E read_ok \in BOOLEAN, seen \in BOOLEAN, reading \in SensorReadings :
          LET point == Waypoints[wp_index]
              frame == capture_frame(camera, read_ok)
              detection == frame /\ find_target_object(target, seen)
              exhausted == wp_index = Len(Waypoints)
              heard == Say(use_voice, "say:searching")
                         \o WaypointLeg(use_voice, is_path_clear(reading), frame, detection)
          IN
          /\ nav_log' = Append(nav_log, point)       \* line 241
          /\ breadcrumb_trail' = record_breadcrumb(breadcrumb_trail, point)
          /\ IF detection \/ exhausted
               THEN /\ camera' = release_camera(camera)
                    /\ Finish("SEARCHING", IF detection THEN "found" ELSE "not_found",
                              WaypointNext(detection), ~detection)
                    /\ calls' = heard
                                 \o (IF detection THEN << >>
                                     ELSE << "print:not_found" >>
                                          \o Say(use_voice, "say:not_found"))
                                 \o << "release_camera" >>
               ELSE /\ wp_index' = wp_index + 1
                    /\ visited' = Spoiled
                    /\ calls' = heard
                    /\ UNCHANGED << camera, state, pc, last, iteration >>
    /\ UNCHANGED << Config, call, current_command, current_plan, target, is_holding,
                    gripper_angle, last_cmd, teardown >>

-----------------------------------------------------------------------------
(* VisualServoing, src/navigation.py lines 54-212 *)

\* Pixel errors and distances a detection may carry. A distance is << >> when
\* estimate_distance returns None and << d >> (cm) otherwise.
ErrorXs == { -460, -50, -49, 0, 49, 50, 460 }
Distances == { << >>, << 25 >>, << 30 >>, << 31 >> }

Abs(x) == IF x < 0 THEN -x ELSE x
Min(a, b) == IF a < b THEN a ELSE b
Max(a, b) == IF a > b THEN a ELSE b

\* Lines 87-91 for a value of self.turn_gain: error_x * turn_gain clamped to
\* +-max_turn, in tenths of a degree.
TurnAngle(error_x, gain) == Max(-max_turn, Min(max_turn, error_x * gain))

\* A turn angle that is not limited.
calculate_turn_angle_unclamped(error_x) == error_x * turn_gain

calculate_turn_angle(error_x) == TurnAngle(error_x, turn_gain)

is_centered(error_x) == Abs(error_x) < center_tolerance_px

is_at_target_distance(distance) ==
    IF distance = << >> THEN FALSE ELSE distance[1] <= target_distance_cm

\* Line 172: "if distance and self.is_at_target_distance(distance)".
Reached(distance) ==
    /\ distance # << >>
    /\ distance[1] # 0
    /\ is_at_target_distance(distance)

NoCmd == [ kind |-> "none", amount |-> 0 ]
Cmd(kind, amount) == [ kind |-> kind, amount |-> amount ]

\* A control law that turns whenever the error is not zero.
ControlLawAlwaysTurns(error_x, gain) ==
    IF error_x > 0 THEN Cmd("turn_right", Abs(TurnAngle(error_x, gain)))
    ELSE IF error_x < 0 THEN Cmd("turn_left", Abs(TurnAngle(error_x, gain)))
    ELSE Cmd("forward", 0)

\* Lines 181-204 for a value of self.turn_gain: the motion command of an
\* iteration that goes on.
ControlLawGain(error_x, gain) ==
    IF ~is_centered(error_x)
      THEN (IF TurnAngle(error_x, gain) > 0
              THEN Cmd("turn_right", Abs(TurnAngle(error_x, gain)))
              ELSE Cmd("turn_left", Abs(TurnAngle(error_x, gain))))
      ELSE Cmd("forward", 0)

ControlLaw(error_x) == ControlLawGain(error_x, turn_gain)

Stop == Cmd("stop", 0)

\* What one iteration comes to: outcome is how it ends ("continue" when the
\* loop goes on) and cmds the drivetrain commands it issues, in order.
Iteration(outcome, cmds) == [ outcome |-> outcome, cmds |-> cmds ]

\* An iteration that drives on when the target is not in the frame.
servo_iteration_tolerant(frame, detection, gui_ok, key_q, error_x, distance) ==
    IF ~frame THEN Iteration("frame_failure", << >>)
    ELSE IF ~gui_ok THEN Iteration("fault", << >>)
    ELSE IF key_q THEN Iteration("aborted", << >>)
    ELSE IF detection /\ Reached(distance) THEN Iteration("reached", << Stop >>)
    ELSE Iteration("continue", << ControlLaw(error_x) >>)

\* The body of the while loop of servo_to_target (lines 140-207) with
\* display = True: frame and detection tell whether capture_frame and
\* find_target_object returned a value, gui_ok whether cv2.imshow returned,
\* key_q whether cv2.waitKey read 'q'.
servo_iteration(frame, detection, gui_ok, key_q, error_x, distance) ==
    IF ~frame THEN Iteration("frame_failure", << >>)               \* 142-144
    ELSE IF ~detection THEN Iteration("lost_target", << Stop >>)   \* 149-153
    ELSE IF ~gui_ok THEN Iteration("fault", << >>)                 \* 164
    ELSE IF key_q THEN Iteration("aborted", << >>)                 \* 165-166
    ELSE IF Reached(distance) THEN Iteration("reached", << Stop >>) \* 172-178
    ELSE Iteration("continue", << ControlLaw(error_x) >>)          \* 181-207

\* What servo_to_target returns when an iteration ends the loop: True on line
\* 178, False on lines 144, 153 and 212.
ServoResult(outcome) == outcome = "reached"

\* What servo_to_target prints when it stops iterating: lines 143, 150, 174,
\* and line 209 both after the loop condition failed and after the break of
\* line 166.
ServoMessage(outcome) ==
    IF outcome = "frame_failure" THEN "print:servo_frame_failed"
    ELSE IF outcome = "lost_target" THEN "print:lost_sight"
    ELSE IF outcome = "reached" THEN "print:reached"
    ELSE "print:max_iterations"

\* A loop that runs once more at the bound.
LoopRunsPastBound(i) == i <= max_iterations

\* Line 139: while iteration < max_iterations.
LoopRuns(i) == i < max_iterations

\* The last command of an iteration, NoCmd when it issues none.
LastCmd(cmds) == IF cmds = << >> THEN NoCmd ELSE cmds[Len(cmds)]

-----------------------------------------------------------------------------
(* Agent._approaching_state, lines 272-286 *)

\* A handler that gives the mission up when the approach fails.
ApproachNextIdle(success) == IF success THEN "GRASPING" ELSE "IDLE"

\* Lines 279-286: the state chosen from what servo_to_target returned.
ApproachNext(success) == IF success THEN "GRASPING" ELSE "SEARCHING"

\* servo_to_target returned: the rest of _approaching_state.
ServoReturn(outcome, success) ==
    /\ Return("APPROACHING", outcome, ApproachNext(success), ~success)
    /\ UNCHANGED iteration
    /\ calls' = calls \o << ServoMessage(outcome) >>
                       \o (IF success THEN Say(use_voice, "say:in_position")
                           ELSE << "print:approach_failed" >>)

\* The handler calls servo_to_target (line 277), which sets iteration = 0.
ApproachingBegin ==
    /\ pc = "tick" /\ state = "APPROACHING"
    /\ nav_log' = << >>
    /\ pc' = "servo"
    /\ iteration' = 0
    /\ last_cmd' = NoCmd
    /\ calls' = << >>
    /\ UNCHANGED << state, Config, call, current_command, current_plan, camera, target,
                    breadcrumb_trail, is_holding, gripper_angle, wp_index,
                    last, visited, teardown >>

\* The effect of one iteration on the agent.
ServoApply(it) ==
    /\ last_cmd' = LastCmd(it.cmds)
    /\ IF it.outcome = "continue"
         THEN /\ iteration' = iteration + 1
              /\ visited' = Spoiled
              /\ UNCHANGED << state, pc, last, calls, camera, wp_index >>
         ELSE IF it.outcome = "fault"
         THEN /\ RaiseIn("APPROACHING", TRUE)
              /\ UNCHANGED calls
         ELSE /\ ServoReturn(it.outcome, ServoResult(it.outcome))
              /\ UNCHANGED camera

\* One iteration of the while loop of servo_to_target (lines 139-207).
ServoIter ==
    /\ pc = "servo"
    /\ UNCHANGED nav_log
    /\ LoopRuns(iteration)
    /\ \E read_ok \in BOOLEAN, seen \in BOOLEAN, key_q \in BOOLEAN, gui_ok \in BOOLEAN :
          LET frame == capture_frame(camera, read_ok)
              detection == find_target_object(target, seen)
          IN
          IF ~frame \/ ~detection \/ ~gui_ok \/ key_q
            THEN ServoApply(servo_iteration(frame, detection, gui_ok, key_q, 0, << >>))
            ELSE \E error_x \in ErrorXs, distance \in Distances :
                 ServoApply(servo_iteration(frame, detection, gui_ok, key_q,
                                            error_x, distance))
    /\ UNCHANGED << Config, call, current_command, current_plan, target,
                    breadcrumb_trail, is_holding, gripper_angle, teardown >>

\* The loop condition fails (line 139): lines 209-212.
ServoTimeout ==
    /\ pc = "servo"
    /\ UNCHANGED nav_log
    /\ ~LoopRuns(iteration)
    /\ ServoReturn("timeout", FALSE)
    /\ last_cmd' = NoCmd
    /\ UNCHANGED << Config, call, current_command, current_plan, camera, target,
                    breadcrumb_trail, is_holding, gripper_angle, teardown >>

-----------------------------------------------------------------------------
(* Agent._grasping_state, lines 288-316 *)

\* GripperController.check_grip returns is_holding (arm_control.py line 276).
check_grip(holding) == holding

\* RoboticArm.grab_object closes the gripper servo to 180 and lifts; it leaves
\* GripperController.is_holding as it was.
grab_object(holding) == holding

\* A handler that retries twice.
GraspCallsThrice(first, second) ==
    IF first THEN << "grab", "check:true" >>
    ELSE << "grab", "check:false", "print:retrying", "grab", "check:false",
            "print:retrying", "grab" >>
         \o (IF second THEN << "check:true" >> ELSE << "check:false" >>)

\* Lines 295-316: the grasp attempts and grip checks made, in order, given what
\* the first and the second check return.
GraspCalls(first, second) ==
    IF first THEN << "grab", "check:true" >>
    ELSE << "grab", "check:false", "print:retrying", "grab" >>
         \o (IF second THEN << "check:true" >> ELSE << "check:false" >>)

\* A handler that goes back to listening when both grasps failed.
GraspNextListens(first, second) ==
    IF first \/ second THEN "RETURNING" ELSE "LISTENING"

\* Lines 300-316: the state the handler ends in.
GraspNext(first, second) ==
    IF first THEN "RETURNING"
    ELSE IF second THEN "RETURNING"
    ELSE "IDLE"

GraspingState ==
    /\ pc = "tick" /\ state = "GRASPING"
    /\ nav_log' = << >>
    /\ LET held1 == grab_object(is_holding)
           first == check_grip(held1)
           held2 == IF first THEN held1 ELSE grab_object(held1)
           second == check_grip(held2)
       IN
       /\ is_holding' = held2
       /\ gripper_angle' = GripperClosed
       /\ Finish("GRASPING",
                 IF first THEN "gripped"
                 ELSE IF second THEN "gripped_on_retry" ELSE "grip_failed",
                 GraspNext(first, second), ~first)
       /\ calls' = Say(use_voice, "say:grabbing")
                    \o GraspCalls(first, second)
                    \o (IF first THEN Say(use_voice, "say:got_it")
                        ELSE IF second THEN << >>
                        ELSE << "print:grasp_failed" >> \o Say(use_voice, "say:could_not_grab"))
    /\ UNCHANGED << Config, call, current_command, current_plan, camera, target,
                    breadcrumb_trail, last_cmd, teardown >>

-----------------------------------------------------------------------------
(* Agent._returning_state, lines 318-348 *)

\* Lines 326-336: the points the handler navigates to, in order.
ReturnTargets(trail) ==
    IF get_return_path(trail) # << >>
      THEN get_return_path(trail)
      ELSE << << 0, 0 >> >>

ReturningState ==
    /\ pc = "tick" /\ state = "RETURNING"
    /\ camera' = release_camera(camera)
    /\ gripper_angle' = GripperClosed      \* the 'present' pose keeps the gripper at 180
    /\ Finish("RETURNING", "returned", "TASK_COMPLETE", FALSE)
    /\ nav_log' = ReturnTargets(breadcrumb_trail)
    /\ calls' = << "release_camera" >>
                 \o [ i \in 1..Len(ReturnTargets(breadcrumb_trail)) |-> "navigate" ]
                 \o << "present" >> \o Say(use_voice, "say:here_is")
    /\ UNCHANGED << Config, call, current_command, current_plan, target,
                    breadcrumb_trail, is_holding, last_cmd, teardown >>

-----------------------------------------------------------------------------
(* Agent._task_complete_state, lines 350-367 *)

\* An open_gripper that moves the servo and keeps the holding flag.
open_gripper_keeps(holding) == holding

\* GripperController.open_gripper: the value it leaves in is_holding.
open_gripper(holding) == FALSE

TaskCompleteState ==
    /\ pc = "tick" /\ state = "TASK_COMPLETE"
    /\ nav_log' = << >>
    /\ is_holding' = open_gripper(is_holding)
    /\ gripper_angle' = GripperOpen
    /\ breadcrumb_trail' = << >>
    /\ current_plan' = "EMPTY"
    /\ Finish("TASK_COMPLETE", "completed", "IDLE", FALSE)
    /\ calls' = << "open_gripper", "home" >>
    /\ UNCHANGED << Config, call, current_command, camera, target, last_cmd, teardown >>

-----------------------------------------------------------------------------
(* Specifications *)

\* Agent.__init__ (lines 27-58) as main.py calls it (line 31): the argument
\* use_laptop_camera is True and is handed to VisionSystem only; the agent keeps
\* no attribute of that name.
InitMain ==
    /\ state = "IDLE"
    /\ pc = "tick"
    /\ use_voice \in BOOLEAN
    /\ arg_laptop = TRUE
    /\ use_laptop_camera = "unset"
    /\ current_command = ""
    /\ current_plan = "EMPTY"
    /\ camera = "none"
    /\ target = Unset
    /\ breadcrumb_trail = << >>
    /\ is_holding = FALSE
    /\ gripper_angle = GripperOpen
    /\ iteration = 0
    /\ wp_index = 1
    /\ last_cmd = NoCmd
    /\ calls = << >>
    /\ last = NoTick
    /\ visited = << >>
    /\ teardown = << >>
    /\ nav_log = << >>
    /\ call = NoCall

MissionStates == { "SEARCHING", "APPROACHING", "GRASPING", "RETURNING" }

\* The handlers taken one at a time: the agent object at the top of a tick, in
\* any of the handled states, with the fields a mission has at that state. The
\* attribute use_laptop_camera is either missing, as __init__ leaves it, or holds
\* a constructor argument; is_holding is either value of
\* GripperController.is_holding.
InitHandlers ==
    /\ state \in HandledStates
    /\ pc = "tick"
    /\ use_voice \in BOOLEAN
    /\ use_laptop_camera \in { "unset", "true", "false" }
    /\ arg_laptop = (use_laptop_camera # "false")
    /\ current_command = IF state = "IDLE" THEN "" ELSE "fetch the red box"
    /\ current_plan = IF state \in { "IDLE", "PLANNING" } THEN "EMPTY" ELSE "red box"
    /\ camera = IF state \in MissionStates THEN "open"
                ELSE IF state = "TASK_COMPLETE" THEN "closed" ELSE "none"
    /\ target = IF state \in { "IDLE", "PLANNING" } THEN Unset
                ELSE set_target_object(Unset, "red box", "red")
    /\ breadcrumb_trail =
          IF state \in { "RETURNING", "TASK_COMPLETE" } /\ use_laptop_camera = "false"
            THEN SubSeq(Waypoints, 1, 3)
            ELSE << >>
    /\ is_holding \in BOOLEAN
    /\ gripper_angle = IF state \in { "RETURNING", "TASK_COMPLETE" }
                         THEN GripperClosed ELSE GripperOpen
    /\ iteration = 0
    /\ wp_index = 1
    /\ last_cmd = NoCmd
    /\ calls = << >>
    /\ last = NoTick
    /\ visited = IF state = "IDLE" THEN << >> ELSE OffOrder
    /\ teardown = << >>
    /\ nav_log = << >>
    /\ call = NoCall

Init == InitHandlers

Next ==
    \/ IdleState
    \/ IdleQuit
    \/ PlanningState
    \/ SearchingAttributeError
    \/ SearchingBegin
    \/ SearchContIter
    \/ SearchWpLeg
    \/ ApproachingBegin
    \/ ServoIter
    \/ ServoTimeout
    \/ GraspingState
    \/ ReturningState
    \/ TaskCompleteState
    \/ Interrupt

Spec == Init /\ [][Next]_vars

\* The program as main.py starts it. Only the handlers of IDLE, PLANNING and
\* SEARCHING can run: the SEARCHING handler raises at line 172 on every entry
\* (MainReachable holds under SpecMainAll), so the other arms of the dispatch
\* are dead.
NextMain ==
    \/ IdleState
    \/ IdleQuit
    \/ PlanningState
    \/ SearchingAttributeError
    \/ Interrupt

SpecMain == InitMain /\ [][NextMain]_vars

\* The same start under every handler.
SpecMainAll == InitMain /\ [][Next]_vars

MainReachable ==
    /\ state \in { "IDLE", "PLANNING", "SEARCHING" }
    /\ pc \in { "tick", "exited" }

TypeOK ==
    /\ state \in HandledStates
    /\ pc \in { "tick", "search_cont", "search_wp", "servo", "exited" }
    /\ use_laptop_camera \in { "unset", "true", "false" }
    /\ current_plan \in PlanValues
    /\ camera \in { "none", "open", "closed" }
    /\ target \in [ description : { "none" } \cup GoodPlans,
                   color : { "none", "red", "unknown" } ]
    /\ iteration \in 0..max_iterations
    /\ wp_index \in 1..Len(Waypoints)
    /\ visited \in { Spoiled, OffOrder } \cup { SubSeq(FullOrder, 1, n) : n \in 0..Len(FullOrder) }

-----------------------------------------------------------------------------
(* NavigationPlanner and VisualServoing exercised on their own, as the      *)
(* __main__ block of src/navigation.py does: call holds the last call. A     *)
(* function whose result depends on its arguments alone is called once on a *)
(* fresh object; breadcrumbs are recorded and read back in any order.       *)

Called(fn, args, ret) == [ fn |-> fn, args |-> args, ret |-> ret ]

Points == (0..MaxCoord) \X (0..MaxCoord)

PixelErrors == (-MaxPixelError)..MaxPixelError

Gains == 0..MaxGain

\* A fresh NavigationPlanner and VisualServoing; the agent does not run.
InitLibrary ==
    /\ InitMain
    /\ ~use_voice

Fresh == call = NoCall

OnTrail == call.fn \in { "none", "record_breadcrumb", "get_return_path" }

RecordBreadcrumb ==
    /\ OnTrail
    /\ Len(breadcrumb_trail) < MaxRecorded
    /\ \E p \in Points :
          /\ breadcrumb_trail' = record_breadcrumb(breadcrumb_trail, p)
          /\ call' = Called("record_breadcrumb", << breadcrumb_trail, p >>, << >>)
    /\ UNCHANGED << state, pc, Config, current_command, current_plan, camera,
                    target, is_holding, gripper_angle, iteration, wp_index,
                    last_cmd, calls, last, visited, teardown, nav_log >>

LibraryFrame ==
    UNCHANGED << state, pc, Config, current_command, current_plan, camera,
                 target, breadcrumb_trail, is_holding, gripper_angle, iteration,
                 wp_index, last_cmd, calls, last, visited, teardown, nav_log >>

GetReturnPath ==
    /\ OnTrail
    /\ call' = Called("get_return_path", << breadcrumb_trail >>,
                      get_return_path(breadcrumb_trail))
    /\ LibraryFrame

GenerateLawnmowerPath ==
    /\ Fresh
    /\ \E w \in 0..MaxSide, h \in 0..MaxSide, s \in 1..MaxStep :
          call' = Called("generate_lawnmower_path", << w, h, s >>,
                         generate_lawnmower_path(w, h, s))
    /\ LibraryFrame

FloatHeights == { Float_0_25, Float_0_3, Float_0_6 }

FloatSteps == { Float_0_1, Float_0_2, Float_0_25 }

\* generate_lawnmower_path called with a float height and step.
GenerateLawnmowerPathFloat ==
    /\ Fresh
    /\ \E w \in 0..MaxSide, h \in FloatHeights, s \in FloatSteps :
          call' = Called("generate_lawnmower_path_float", << w, h, s >>,
                         generate_lawnmower_path_float(w, h, s))
    /\ LibraryFrame

CalculateTurnAngle ==
    /\ Fresh
    /\ \E error_x \in PixelErrors :
          call' = Called("calculate_turn_angle", << error_x >>,
                         calculate_turn_angle(error_x))
    /\ LibraryFrame

\* The control logic of one servo iteration, for a value of self.turn_gain.
ControlStep ==
    /\ Fresh
    /\ \E error_x \in PixelErrors, gain \in Gains :
          call' = Called("control_law", << error_x, gain >>,
                         ControlLawGain(error_x, gain))
    /\ LibraryFrame

\* The distances a vision_system handed to servo_to_target may report: those
\* of VisionSystem and 0.
ServoDistances == Distances \cup { << 0 >> }

\* One iteration of servo_to_target on what its vision_system reports.
ServoIteration ==
    /\ Fresh
    /\ \E frame \in BOOLEAN, detection \in BOOLEAN, gui_ok \in BOOLEAN,
          key_q \in BOOLEAN, error_x \in ErrorXs, distance \in ServoDistances :
          call' = Called("servo_iteration",
                         << frame, detection, gui_ok, key_q, error_x, distance >>,
                         servo_iteration(frame, detection, gui_ok, key_q,
                                         error_x, distance))
    /\ LibraryFrame

\* avoid_obstacle on what the side sensors read.
AvoidObstacle ==
    /\ Fresh
    /\ \E left \in SensorReadings, right \in SensorReadings :
          call' = Called("avoid_obstacle", << left, right >>,
                         avoid_obstacle(left, right))
    /\ LibraryFrame

-----------------------------------------------------------------------------
(* MotorController, src/motor_control.py: the simulated drivetrain. Positions *)
(* are in units of the grid step, headings in degrees; the moves taken are    *)
(* along the axes, where the sines and cosines are -1, 0 and 1.               *)

turn_threshold == 5     \* line 158

Headings == { 0, 90, 180, 270 }

GridPoints == (0..MaxGrid) \X (0..MaxGrid)

\* _cos_deg and _sin_deg (lines 264-272) at a multiple of 90 degrees.
cos_deg(degrees) ==
    CASE degrees % 360 = 0 -> 1 [] degrees % 360 = 180 -> -1 [] OTHER -> 0

sin_deg(degrees) ==
    CASE degrees % 360 = 90 -> 1 [] degrees % 360 = 270 -> -1 [] OTHER -> 0

\* _atan2_deg (lines 274-277) of a displacement along an axis: math.atan2 is
\* counter-clockwise from the x axis, in (-180, 180].
atan2_deg(y, x) ==
    IF y = 0 THEN (IF x < 0 THEN 180 ELSE 0)
    ELSE IF y > 0 THEN 90 ELSE -90

\* turn_left, line 108.
turn_left(heading, degrees) == (heading - degrees) % 360

\* turn_right, line 126.
turn_right(heading, degrees) == (heading + degrees) % 360

\* move_forward, lines 67-70: the position after the move.
move_forward(position, heading, distance) ==
    << position[1] + distance * cos_deg(heading),
       position[2] + distance * sin_deg(heading) >>

\* Line 155.
angle_diff(target_angle, heading) == ((target_angle - heading + 180) % 360) - 180

\* navigate_to_point, lines 138-168, for a target on the row or the column of
\* the position: the position and the heading it leaves.
navigate_to_point(position, heading, target_xy) ==
    LET dx == target_xy[1] - position[1]
        dy == target_xy[2] - position[2]
        distance == Abs(dx) + Abs(dy)       \* (dx**2 + dy**2)**0.5 along an axis
        diff == angle_diff(atan2_deg(dy, dx), heading)
        turned == IF Abs(diff) > turn_threshold
                    THEN (IF diff > 0 THEN turn_left(heading, Abs(diff))
                          ELSE turn_right(heading, Abs(diff)))
                    ELSE heading
    IN  << move_forward(position, turned, distance), turned >>

AxisAligned(position, target_xy) ==
    position[1] = target_xy[1] \/ position[2] = target_xy[2]

\* navigate_to_point from a grid point, facing along an axis.
NavigateToPoint ==
    /\ Fresh
    /\ \E position \in GridPoints, heading \in Headings, target_xy \in GridPoints :
          /\ AxisAligned(position, target_xy)
          /\ call' = Called("navigate_to_point", << position, heading, target_xy >>,
                            navigate_to_point(position, heading, target_xy))
    /\ LibraryFrame

NextLibrary ==
    \/ RecordBreadcrumb
    \/ GetReturnPath
    \/ GenerateLawnmowerPath
    \/ GenerateLawnmowerPathFloat
    \/ CalculateTurnAngle
    \/ ControlStep
    \/ ServoIteration
    \/ AvoidObstacle
    \/ NavigateToPoint

SpecLibrary == InitLibrary /\ [][NextLibrary]_vars

-----------------------------------------------------------------------------
(* Properties *)

Range(s) == { s[i] : i \in 1..Len(s) }

Count(s, x) == Cardinality({ i \in 1..Len(s) : s[i] = x })

\* The last tick ended with its handler returning: no fault, interrupt or quit.
Returned == last.outcome \notin { "-", "fault", "interrupt", "quit" }

\* The transition table of the mission state machine: the successor on success
\* and the successor on failure of each state.
TableSuccess(s) ==
    CASE s = "IDLE"          -> "PLANNING"
      [] s = "PLANNING"      -> "SEARCHING"
      [] s = "SEARCHING"     -> "APPROACHING"
      [] s = "APPROACHING"   -> "GRASPING"
      [] s = "GRASPING"      -> "RETURNING"
      [] s = "RETURNING"     -> "TASK_COMPLETE"
      [] s = "TASK_COMPLETE" -> "IDLE"

TableAlt(s) ==
    CASE s \in { "PLANNING", "SEARCHING", "GRASPING" } -> "IDLE"
      [] s = "APPROACHING"                             -> "SEARCHING"
      [] OTHER                                         -> TableSuccess(s)

SuccessOutcomes == { "command", "planned", "found", "reached", "gripped",
                     "gripped_on_retry", "returned", "completed" }

\* C1 (state machine totality): at the end of every tick whose handler produced
\* an outcome, the state is the one the transition table gives for the handled
\* state and that outcome: the success column for a success outcome, the
\* failure column for any other. A tick of voice-mode IDLE in which nothing was
\* heard is the handler still blocking and is left out.
C1_Totality ==
    (Returned /\ last.outcome # "waiting") =>
        last.to = IF last.outcome \in SuccessOutcomes
                    THEN TableSuccess(last.from)
                    ELSE TableAlt(last.from)

\* C2 (successful fetch scenario): as long as no port has reported a negative
\* result since the command was accepted, the states entered follow the order
\* PLANNING, SEARCHING, APPROACHING, GRASPING, RETURNING, TASK_COMPLETE, IDLE,
\* and once the mission is back in IDLE the plan is cleared and the breadcrumb
\* trail is empty.
C2_SuccessfulFetch ==
    visited # Spoiled =>
        /\ visited # OffOrder
        /\ visited = FullOrder =>
              (current_plan = "EMPTY" /\ breadcrumb_trail = << >>)

\* C3 (failure isolation): a tick in which the handler raised an error ends with
\* the run loop still running and the state IDLE, and the tick after it is a
\* tick of the IDLE handler.
C3_FailureIsolation ==
    [][ /\ last'.outcome = "fault" => (state' = "IDLE" /\ pc' = "tick")
        /\ last.outcome = "fault" => last'.from = "IDLE" ]_vars

C3_Witness ==
    /\ last = Tick("APPROACHING", "fault", "IDLE")
    /\ state = "IDLE"
    /\ pc = "tick"

C5_PlanningFailure ==
    [][ (pc = "tick" /\ state = "PLANNING" /\ pc' = "tick" /\ ~Truthy(current_plan')) =>
            /\ state' = "IDLE"
            /\ target' = target
            /\ camera' = camera
            /\ "set_target" \notin Range(calls')
            /\ "init_camera" \notin Range(calls') ]_vars

C5_Witness ==
    /\ last = Tick("PLANNING", "no_plan", "IDLE")
    /\ current_plan = "NONE"
    /\ target = Unset
    /\ camera = "none"
    /\ state = "IDLE"

IsCheck(c) == c \in { "check:true", "check:false" }

\* C6 (grasp bounded retry): a run of the GRASPING handler makes at most two
\* grasp attempts and at most two grip checks, the second attempt and check only
\* after a first check that returned false; it ends in RETURNING iff some check
\* returned true and in IDLE iff both returned false. The state chosen for a
\* first check false and a second check true is RETURNING.
C6_GraspBoundedRetry ==
    /\ (last.from = "GRASPING" /\ Returned) =>
          LET grabs == Count(calls, "grab")
              checks == SelectSeq(calls, IsCheck)
          IN
          /\ grabs \in 1..2
          /\ Len(checks) = grabs
          /\ grabs = 2 => checks[1] = "check:false"
          /\ state = "RETURNING" <=> "check:true" \in Range(checks)
          /\ state = "IDLE" <=> checks = << "check:false", "check:false" >>
    /\ \A first \in BOOLEAN, second \in BOOLEAN :
          /\ GraspNext(first, second) = "RETURNING" <=> (first \/ second)
          /\ GraspNext(first, second) = "IDLE" <=> (~first /\ ~second)

C6_Witness ==
    /\ last = Tick("GRASPING", "grip_failed", "IDLE")
    /\ Count(calls, "grab") = 2
    /\ SelectSeq(calls, IsCheck) = << "check:false", "check:false" >>
    /\ state = "IDLE"

\* C7 (grasp total failure): when both grip checks of the GRASPING handler
\* returned false, the tick ends in IDLE (so RETURNING is not entered) with
\* current_plan cleared.
C7_GraspTotalFailure ==
    (last.from = "GRASPING" /\ Returned
       /\ SelectSeq(calls, IsCheck) = << "check:false", "check:false" >>) =>
        /\ state = "IDLE"
        /\ current_plan = "EMPTY"

\* C8 (approach outcome routing): the APPROACHING handler ends in GRASPING iff
\* the servo loop returned reached, and in SEARCHING for every other outcome the
\* servo loop returns (lost target, timeout, frame failure, abort), whatever the
\* iteration it returned at.
C8_ApproachRouting ==
    (last.from = "APPROACHING" /\ Returned) =>
        /\ state = last.to
        /\ state = "GRASPING" <=> last.outcome = "reached"
        /\ last.outcome # "reached" => state = "SEARCHING"

\* The detection call returned none when iteration was 3.
C8_Witness ==
    /\ last = Tick("APPROACHING", "lost_target", "SEARCHING")
    /\ iteration = 3
    /\ state = "SEARCHING"
    /\ pc = "tick"

\* C9 (search found hand-off): in both search modes a SEARCHING handler in which
\* a detection occurred ends in APPROACHING, and one that ends in IDLE ended
\* with not_found, aborted or camera_error.
C9_FoundHandOff ==
    (last.from = "SEARCHING" /\ Returned) =>
        /\ last.outcome = "found" => last.to = "APPROACHING"
        /\ last.to = "IDLE" => last.outcome \in { "not_found", "aborted", "camera_error" }

\* C10 (search mode selection): a tick that enters the SEARCHING handler with a
\* valid plan and an acquired camera starts the search mode the constructor
\* argument use_laptop_camera selects (true: continuous polling, false: waypoint
\* traversal), and the argument never changes.
C10_ModeSelection ==
    [][ /\ (pc = "tick" /\ state = "SEARCHING" /\ Truthy(current_plan)
              /\ camera = "open" /\ pc' # "exited") =>
                pc' = (IF arg_laptop THEN "search_cont" ELSE "search_wp")
        /\ arg_laptop' = arg_laptop ]_vars

\* C11 (camera release on abandonment): whenever the state machine is at the top
\* of a tick in IDLE, the camera is not held; as PLANNING is entered from IDLE
\* only, PLANNING then never acquires a camera while one is held.
C11_CameraReleased ==
    (pc = "tick" /\ state = "IDLE") => camera # "open"

\* C12 as stated (search releases the camera on every outcome): when the
\* SEARCHING handler has returned, with found, not_found, aborted or
\* camera_error, in either mode, the camera is not held.
C12_Original ==
    (last.from = "SEARCHING" /\ Returned) => camera # "open"

\* C12 (search releases the camera on every outcome but the continuous found):
\* when the SEARCHING handler has returned with not_found, aborted or
\* camera_error the camera is not held; with found, the waypoint mode has
\* released the camera and the continuous mode still holds it, open, for
\* APPROACHING.
C12_SearchRelease ==
    (last.from = "SEARCHING" /\ Returned) =>
        /\ last.outcome \in { "not_found", "aborted", "camera_error" } => camera # "open"
        /\ (last.outcome = "found" /\ use_laptop_camera = "false") => camera # "open"
        /\ (last.outcome = "found" /\ use_laptop_camera = "true") => camera = "open"

C12_Witness ==
    /\ last = Tick("SEARCHING", "aborted", "IDLE")
    /\ use_laptop_camera = "true"
    /\ camera = "closed"
    /\ "release_camera" \in Range(calls)

\* C13 (user abort channel): an abort raised during SEARCHING or APPROACHING
\* ends the tick in IDLE, with the run loop still running and no teardown step
\* performed.
C13_AbortUnwinds ==
    last.outcome = "aborted" =>
        /\ last.to = "IDLE"
        /\ pc # "exited"
        /\ teardown = << >>

\* C14 (RETURNING always succeeds): a tick of the RETURNING handler releases the
\* camera first and ends in TASK_COMPLETE; with a non-empty breadcrumb trail it
\* navigates to each recorded waypoint in the exact reverse order of recording,
\* with an empty trail it navigates exactly once, to (0, 0).
C14_ReturningSucceeds ==
    (last.from = "RETURNING" /\ last.outcome # "interrupt") =>
        /\ last = Tick("RETURNING", "returned", "TASK_COMPLETE")
        /\ state = "TASK_COMPLETE"
        /\ calls[1] = "release_camera"
        /\ camera # "open"
        /\ Count(calls, "navigate") = Len(nav_log)
        /\ IF breadcrumb_trail = << >>
             THEN nav_log = << << 0, 0 >> >>
             ELSE /\ Len(nav_log) = Len(breadcrumb_trail)
                  /\ \A i \in 1..Len(nav_log) :
                        nav_log[i] = breadcrumb_trail[Len(breadcrumb_trail) + 1 - i]

C14_Witness ==
    /\ last = Tick("RETURNING", "returned", "TASK_COMPLETE")
    /\ Len(breadcrumb_trail) = 3
    /\ nav_log = << breadcrumb_trail[3], breadcrumb_trail[2], breadcrumb_trail[1] >>
    /\ breadcrumb_trail[1] # breadcrumb_trail[3]
    /\ camera = "closed"

\* C15 (TASK_COMPLETE effects): a tick of the TASK_COMPLETE handler ends in IDLE
\* with the gripper open and not holding, current_plan empty and the breadcrumb
\* trail empty.
C15_TaskCompleteEffects ==
    (last.from = "TASK_COMPLETE" /\ last.outcome # "interrupt") =>
        /\ last = Tick("TASK_COMPLETE", "completed", "IDLE")
        /\ state = "IDLE"
        /\ ~is_holding
        /\ gripper_angle = 0
        /\ current_plan = "EMPTY"
        /\ breadcrumb_trail = << >>

\* The mission that was completed had recorded breadcrumbs.
C15_Witness ==
    /\ last = Tick("TASK_COMPLETE", "completed", "IDLE")
    /\ state = "IDLE"
    /\ use_laptop_camera = "false"
    /\ calls = << "open_gripper", "home" >>
    /\ breadcrumb_trail = << >>
    /\ ~is_holding

\* C16 (breadcrumb reversal): record_breadcrumb appends the waypoint to the
\* trail, so that after N calls on an empty trail the trail is the N waypoints
\* in the order of recording; get_return_path returns exactly the trail in
\* reverse order, the empty list iff nothing was recorded, and leaves the trail
\* as it was.
C16_BreadcrumbReversal ==
    /\ call.fn = "record_breadcrumb" =>
          LET before == call.args[1] IN
          /\ Len(breadcrumb_trail) = Len(before) + 1
          /\ breadcrumb_trail[Len(breadcrumb_trail)] = call.args[2]
          /\ \A i \in 1..Len(before) : breadcrumb_trail[i] = before[i]
    /\ call.fn = "get_return_path" =>
          LET trail == call.args[1]
              path == call.ret
          IN
          /\ Len(path) = Len(trail)
          /\ \A i \in 1..Len(path) : path[i] = trail[Len(trail) + 1 - i]
          /\ path = << >> <=> Len(trail) = 0
          /\ breadcrumb_trail = trail

C16_Witness ==
    /\ call.fn = "get_return_path"
    /\ breadcrumb_trail = << << 0, 0 >>, << 1, 0 >>, << 1, 1 >> >>
    /\ call.ret = << << 1, 1 >>, << 1, 0 >>, << 0, 0 >> >>

\* C17 (lawnmower coverage bounds): every waypoint (x, y) of
\* generate_lawnmower_path(W, H, S), W >= 0, H >= 0, S > 0, has 0 <= x <= W and
\* 0 <= y <= H, and the y of the last row satisfies y <= H < y + S.
C17_LawnmowerBounds ==
    call.fn = "generate_lawnmower_path" =>
        LET w == call.args[1]
            h == call.args[2]
            s == call.args[3]
            path == call.ret
        IN
        /\ Len(path) > 0
        /\ \A i \in 1..Len(path) :
              /\ 0 <= path[i][1] /\ path[i][1] <= w
              /\ 0 <= path[i][2] /\ path[i][2] <= h
        /\ path[Len(path)][2] <= h
        /\ h < path[Len(path)][2] + s

C17_Witness ==
    /\ call.fn = "generate_lawnmower_path"
    /\ call.args = << 3, 4, 3 >>
    /\ call.ret = << << 0, 0 >>, << 3, 0 >>, << 3, 3 >>, << 0, 3 >> >>

Sign(x) == IF x > 0 THEN 1 ELSE IF x < 0 THEN -1 ELSE 0

\* C19 (servo centering): when the control law is reached with |error_x| below
\* the centre tolerance the command is a forward move and not a turn; with
\* error_x = 0 no turn is commanded, whatever the turn gain.
C19_ServoCentering ==
    call.fn = "control_law" =>
        LET error_x == call.args[1] IN
        /\ Abs(error_x) < center_tolerance_px => call.ret.kind = "forward"
        /\ error_x = 0 => call.ret.kind \notin { "turn_left", "turn_right" }

C19_Witness ==
    /\ call.fn = "control_law"
    /\ call.args = << -49, 2 >>
    /\ call.ret = Cmd("forward", 0)

\* C20 (turn clamp): calculate_turn_angle(error_x) is error_x * turn_gain
\* limited to [-max_turn, +max_turn]; its magnitude never exceeds max_turn (45
\* degrees) and its sign is the sign of error_x.
C20_TurnClamp ==
    call.fn = "calculate_turn_angle" =>
        LET error_x == call.args[1]
            raw == error_x * turn_gain
            angle == call.ret
        IN
        /\ angle = IF raw > max_turn THEN max_turn
                   ELSE IF raw < -max_turn THEN -max_turn
                   ELSE raw
        /\ -450 <= angle /\ angle <= 450
        /\ Sign(angle) = Sign(error_x)

C20_Witness ==
    /\ call.fn = "calculate_turn_angle"
    /\ call.args = << -460 >>
    /\ call.ret = -450

\* The rows the claim describes, for a path whose coordinates are integers:
\* row i is the pair at y = i*S, from 0 to W for even i, from W to 0 for odd i.
RowsAlternate(path, w, s, rows) ==
    \A i \in 0..(rows - 1) :
        /\ path[2 * i + 1][2] = i * s
        /\ path[2 * i + 2][2] = i * s
        /\ path[2 * i + 1][1] = (IF i % 2 = 0 THEN 0 ELSE w)
        /\ path[2 * i + 2][1] = (IF i % 2 = 0 THEN w ELSE 0)

\* In whole units the path has 2*(floor(H/S)+1) waypoints in alternating rows.
C18_IntegerRows ==
    call.fn = "generate_lawnmower_path" =>
        LET w == call.args[1]
            h == call.args[2]
            s == call.args[3]
            path == call.ret
        IN
        /\ Len(path) = 2 * ((h \div s) + 1)
        /\ RowsAlternate(path, w, s, (h \div s) + 1)

\* On float height and step the path has 2*(k+1) waypoints, k = floor(H/S)
\* being the whole number with k*S <= H < (k+1)*S, in alternating rows.
C18_FloatRows ==
    call.fn = "generate_lawnmower_path_float" =>
        LET w == call.args[1]
            h == call.args[2]
            s == call.args[3]
            path == call.ret
        IN
        \E k \in 0..Len(path) :
            /\ BitsLeq(ExactMultiple(s, k), h)
            /\ ~BitsLeq(ExactMultiple(s, k + 1), h)
            /\ Len(path) = 2 * (k + 1)
            /\ \A i \in 0..k :
                  /\ path[2 * i + 1][1] = (IF i % 2 = 0 THEN 0 ELSE w)
                  /\ path[2 * i + 2][1] = (IF i % 2 = 0 THEN w ELSE 0)
                  /\ path[2 * i + 1][2] = path[2 * i + 2][2]

\* C18 (lawnmower row structure): generate_lawnmower_path(W, H, S) with S > 0
\* returns exactly 2*(floor(H/S)+1) waypoints; row i contributes two
\* consecutive points at y = i*S with x in {0, W}, ordered (0, W) for even i
\* and (W, 0) for odd i, so the sweep direction alternates every row.
C18_RowStructure ==
    /\ C18_IntegerRows
    /\ C18_FloatRows

\* The call generate_lawnmower_path(_, 0.6, 0.1): seven rows where
\* floor(0.6 / 0.1) + 1 is six.
C18_FloatExtraRow ==
    /\ call.fn = "generate_lawnmower_path_float"
    /\ call.args[2] = Float_0_6
    /\ call.args[3] = Float_0_1
    /\ Len(call.ret) = 14
    /\ call.ret[13][2] = Float_0_6
    /\ ~BitsLeq(ExactMultiple(Float_0_1, 6), Float_0_6)

\* The arguments and the result of the servo iteration held in call.
IsIteration == call.fn = "servo_iteration"
ItFrame == call.args[1]
ItDetection == call.args[2]
ItGuiOk == call.args[3]
ItKeyQ == call.args[4]
ItErrorX == call.args[5]
ItDistance == call.args[6]
Motion == { "turn_left", "turn_right", "forward" }
Kinds(cmds) == { cmds[i].kind : i \in 1..Len(cmds) }

\* C21 (lost target is immediate): a servo iteration whose detection is none
\* issues stop on the drivetrain, issues no turn or forward command, ends the
\* loop (no further frame is acquired) and makes servo_to_target return failure.
C21_LostTargetImmediate ==
    (IsIteration /\ ItFrame /\ ~ItDetection) =>
        /\ call.ret.cmds = << Stop >>
        /\ Kinds(call.ret.cmds) \cap Motion = {}
        /\ call.ret.outcome = "lost_target"
        /\ call.ret.outcome # "continue"
        /\ ~ServoResult(call.ret.outcome)

C21_Witness ==
    /\ IsIteration /\ ItFrame /\ ~ItDetection /\ ItGuiOk /\ ~ItKeyQ
    /\ ItErrorX = 460 /\ ItDistance = << 25 >>
    /\ call.ret = Iteration("lost_target", << Stop >>)

C22_ZeroDistance ==
    /\ IsIteration /\ ItFrame /\ ItDetection /\ ItGuiOk /\ ~ItKeyQ
    /\ ItDistance = << 0 >>
    /\ call.ret.outcome = "continue"
    /\ Kinds(call.ret.cmds) \subseteq Motion

\* C27 (control law): every servo iteration that neither terminates nor aborts
\* issues exactly one motion command: a turn iff |error_x| is strictly greater
\* than the centre tolerance, otherwise (|error_x| equal to the tolerance
\* included) a forward move; the turn is turn_right when the turn angle is
\* positive and turn_left when it is negative, of magnitude |turn_angle|.
C27_ControlLaw ==
    (IsIteration /\ call.ret.outcome = "continue") =>
        LET cmds == call.ret.cmds
            angle == calculate_turn_angle(ItErrorX)
        IN
        /\ Len(cmds) = 1
        /\ cmds[1].kind \in Motion
        /\ cmds[1].kind \in { "turn_left", "turn_right" }
              <=> Abs(ItErrorX) > center_tolerance_px
        /\ Abs(ItErrorX) <= center_tolerance_px => cmds[1].kind = "forward"
        /\ cmds[1].kind = "turn_right" => angle > 0 /\ cmds[1].amount = Abs(angle)
        /\ cmds[1].kind = "turn_left" => angle < 0 /\ cmds[1].amount = Abs(angle)

\* The iteration with |error_x| equal to the tolerance: it turns.
C27_TurnAtTolerance ==
    /\ IsIteration /\ call.ret.outcome = "continue"
    /\ ItErrorX = center_tolerance_px
    /\ call.ret.cmds = << Cmd("turn_right", center_tolerance_px * turn_gain) >>

\* servo_to_target has just returned with this outcome.
ServoReturned(outcome) ==
    /\ pc = "tick"
    /\ last.from = "APPROACHING"
    /\ last.outcome = outcome

\* C23 (servo failure outcomes stop actuation): on each of the failure outcomes
\* lost_target, timeout and user abort, servo_to_target issues a stop command
\* to the drivetrain before it returns.
C23_FailureStops ==
    \A outcome \in { "lost_target", "timeout", "aborted" } :
        ServoReturned(outcome) => last_cmd = Stop

\* servo_to_target returned on the abort key without a stop.
C23_AbortNoStop == ServoReturned("aborted") /\ last_cmd = NoCmd

\* servo_to_target returned on the iteration bound without a stop.
C23_TimeoutNoStop == ServoReturned("timeout") /\ last_cmd = NoCmd

\* The loop of servo_to_target is bounded: the counter never passes
\* max_iterations and a timeout is returned with the counter at the bound.
C24_Bounded ==
    /\ iteration <= max_iterations
    /\ ServoReturned("timeout") => iteration = max_iterations

\* Every iteration that stays in the loop counts one and issues one motion
\* command; at the bound the only way on is the timeout.
C24_Progress ==
    [][ (pc = "servo" /\ pc' = "servo")
            => /\ iteration' = iteration + 1
               /\ last_cmd'.kind \in Motion
               /\ iteration < max_iterations ]_vars

\* What was printed tells a timeout from a lost target.
C24_Distinct ==
    /\ ServoReturned("timeout") =>
          /\ ~ServoResult(last.outcome)
          /\ "print:max_iterations" \in Range(calls)
          /\ "print:lost_sight" \notin Range(calls)
    /\ ServoReturned("lost_target") =>
          /\ "print:lost_sight" \in Range(calls)
          /\ "print:max_iterations" \notin Range(calls)

\* C24 (servo termination): servo_to_target runs at most max_iterations (100)
\* control iterations and issues at most 100 motion commands, one for each
\* iteration that goes on; when neither reached nor lost_target occurred within
\* the bound it returns the failure outcome timeout, which is distinguishable
\* from lost_target.
C24_ServoTermination == [](C24_Bounded /\ C24_Distinct) /\ C24_Progress

C24_Witness ==
    /\ ServoReturned("timeout")
    /\ iteration = max_iterations
    /\ state = "SEARCHING"
    /\ calls = << "print:max_iterations", "print:approach_failed" >>

\* An explicit status message of an abandonment, and its spoken notice.
StatusMessages ==
    { "print:planning_failed", "print:search_aborted", "print:not_found",
      "print:grasp_failed" }
SpokenNotices == { "say:not_understood", "say:not_found", "say:could_not_grab" }
Abandonments == { "no_plan", "not_found", "aborted", "grip_failed" }

\* A handler has just given the mission up with this outcome.
Abandoned(outcome) ==
    /\ pc = "tick" /\ state = "IDLE"
    /\ last.from \in { "PLANNING", "SEARCHING", "GRASPING" }
    /\ last.to = "IDLE"
    /\ last.outcome = outcome

\* C25 (abandonment notice): on every abandonment to IDLE (planning failure,
\* search not-found or abort, grasp failure after retry) a status message is
\* emitted before the state becomes IDLE and, when voice is enabled, a spoken
\* notice too.
C25_AbandonmentNotice ==
    \A outcome \in Abandonments :
        Abandoned(outcome) =>
            /\ Range(calls) \cap StatusMessages # {}
            /\ use_voice => Range(calls) \cap SpokenNotices # {}

\* The continuous search given up on the abort key, voice enabled: a printed
\* message and no spoken one.
C25_SilentAbort ==
    /\ Abandoned("aborted")
    /\ use_voice
    /\ calls = << "say:searching", "capture_frame", "detect:none", "imshow", "key:q",
                "print:search_aborted", "release_camera" >>

\* C26 (quit command): when the IDLE handler acquires the command quit, in text
\* mode or in voice mode, the teardown sequence runs, the process terminates and
\* PLANNING is not entered for that command.
C26_QuitCommand ==
    /\ last.outcome = "quit" =>
          /\ pc = "exited"
          /\ teardown = ShutdownSteps(use_voice)
          /\ state # "PLANNING"
    /\ (pc = "tick" /\ last = Tick("IDLE", "command", "PLANNING")) =>
          current_command # "quit"

\* Voice mode: the command quit was acquired and PLANNING is entered with it.
C26_VoiceQuitPlans ==
    /\ use_voice
    /\ pc = "tick" /\ state = "PLANNING"
    /\ last = Tick("IDLE", "command", "PLANNING")
    /\ current_command = "quit"
    /\ teardown = << >>

\* A step that runs one iteration of the continuous search loop.
ContStep == pc = "search_cont" /\ pc' # "exited"

Detections(log) == Count(log, "detect:hit") + Count(log, "detect:none")

\* C28 (continuous-polling search loop): each iteration acquires one frame and
\* runs one detection on it; on the first detection the loop ends in that same
\* iteration with state APPROACHING and no further frame; with no detection and
\* no abort the loop goes on with another iteration; the loop ends only on a
\* detection, an abort or a camera failure (or when a call raises).
C28_ContinuousLoop ==
    [][ ContStep =>
          LET hit == "detect:hit" \in Range(calls') /\ "imshow" \in Range(calls')
              miss == "detect:none" \in Range(calls')
          IN
          /\ Count(calls', "capture_frame") = 1
          /\ Detections(calls') <= 1
          /\ hit => /\ pc' = "tick"
                    /\ state' = "APPROACHING"
                    /\ last' = Tick("SEARCHING", "found", "APPROACHING")
          /\ (miss /\ "key:none" \in Range(calls'))
                => pc' = "search_cont" /\ state' = "SEARCHING"
          /\ pc' = "search_cont" => miss /\ "key:none" \in Range(calls')
          /\ pc' = "tick" =>
                /\ last'.outcome \in { "found", "aborted", "camera_error", "fault" }
                /\ last'.outcome = "found" <=> hit
                /\ last'.outcome = "aborted" <=> "key:q" \in Range(calls')
                /\ last'.outcome = "camera_error" <=> Detections(calls') = 0 ]_vars

C28_Witness ==
    /\ pc = "tick" /\ state = "APPROACHING"
    /\ last = Tick("SEARCHING", "found", "APPROACHING")
    /\ ~use_voice
    /\ calls = << "capture_frame", "detect:hit", "imshow" >>
    /\ camera = "open"

\* C29 (frame-capture hiccup in continuous search): when a frame capture fails
\* during the continuous search, that iteration is skipped and the search goes
\* on in SEARCHING with the next iteration; the mission is not abandoned.
C29_FrameHiccupSkipped ==
    [][ (ContStep /\ Detections(calls') = 0)
            => /\ pc' = "search_cont"
               /\ state' = "SEARCHING"
               /\ camera' = camera ]_vars

\* The continuous search left on a failed capture: IDLE, camera released.
C29_FrameFailureAbandons ==
    /\ pc = "tick" /\ state = "IDLE"
    /\ last = Tick("SEARCHING", "camera_error", "IDLE")
    /\ "print:search_aborted" \in Range(calls)
    /\ Detections(calls) = 0
    /\ camera = "closed"

\* A step that runs one leg of the waypoint sweep.
LegStep == pc = "search_wp" /\ pc' # "exited"

LegOps ==
    { "clear:true", "clear:false", "avoid_obstacle", "navigate",
      "record_breadcrumb", "capture_frame", "detect:hit", "detect:none" }
IsLegOp(x) == x \in LegOps

\* C30 (waypoint leg protocol): every leg of the waypoint sweep performs, in
\* order, one front-clearance query, the avoidance maneuver iff the query
\* reported blocked, navigate_to the waypoint, the append of that waypoint to
\* the breadcrumb trail, then one detection attempt (a frame capture and, on a
\* frame, one detection); the first detection ends the sweep with no further
\* leg; when every waypoint was visited without a detection the outcome is
\* not_found with state IDLE; the waypoints appended in a sweep are the visited
\* prefix of the lawnmower path, in order.
C30_WaypointLeg ==
    [][ LegStep =>
          LET ops == SelectSeq(calls', IsLegOp)
              hit == "detect:hit" \in Range(calls')
              point == Waypoints[wp_index]
          IN
          /\ \E clear \in BOOLEAN,
                look \in { << >>, << "detect:hit" >>, << "detect:none" >> } :
                ops = << IF clear THEN "clear:true" ELSE "clear:false" >>
                      \o (IF clear THEN << >> ELSE << "avoid_obstacle" >>)
                      \o << "navigate", "record_breadcrumb", "capture_frame" >>
                      \o look
          /\ nav_log' = SubSeq(Waypoints, 1, wp_index)
          /\ breadcrumb_trail' = Append(breadcrumb_trail, point)
          /\ hit => pc' = "tick" /\ last'.outcome = "found"
          /\ (~hit /\ wp_index = Len(Waypoints))
                => /\ pc' = "tick" /\ state' = "IDLE"
                   /\ last' = Tick("SEARCHING", "not_found", "IDLE")
          /\ (~hit /\ wp_index < Len(Waypoints))
                => /\ pc' = "search_wp" /\ state' = "SEARCHING"
                   /\ wp_index' = wp_index + 1 ]_vars

C30_Witness ==
    /\ pc = "tick"
    /\ last.from = "SEARCHING" /\ last.outcome = "found"
    /\ nav_log = SubSeq(Waypoints, 1, 2)
    /\ breadcrumb_trail = nav_log
    /\ SelectSeq(calls, IsLegOp) =
          << "clear:false", "avoid_obstacle", "navigate", "record_breadcrumb",
             "capture_frame", "detect:hit" >>

Turns == { "turn_left:45", "turn_right:45", "turn_right:180", "turn_left:180" }

\* C31 (obstacle avoidance decision): avoid_obstacle first stops and reverses,
\* then probes the left and the right clearance once each, then issues exactly
\* one turn: toward the only clear side when exactly one side is clear, left 45
\* when both are clear, 180 degrees when neither is.
C31_AvoidanceDecision ==
    call.fn = "avoid_obstacle" =>
        LET left == call.args[1] > min_safe_distance
            right == call.args[2] > min_safe_distance
            ops == call.ret
        IN
        /\ Len(ops) = 5
        /\ SubSeq(ops, 1, 4) =
              << "stop", "move_backward", "is_path_clear:left", "is_path_clear:right" >>
        /\ ops[5] \in Turns
        /\ (left /\ ~right) => ops[5] = "turn_left:45"
        /\ (right /\ ~left) => ops[5] = "turn_right:45"
        /\ (left /\ right) => ops[5] = "turn_left:45"
        /\ (~left /\ ~right) => ops[5] \in { "turn_right:180", "turn_left:180" }

C31_Witness ==
    /\ call.fn = "avoid_obstacle"
    /\ call.args = << 5, 20 >>
    /\ call.ret = << "stop", "move_backward", "is_path_clear:left",
                     "is_path_clear:right", "turn_left:45" >>

\* a is logged before b.
Before(log, a, b) ==
    \E i \in 1..Len(log), j \in 1..Len(log) : i < j /\ log[i] = a /\ log[j] = b

\* A step that runs the PLANNING handler to its end.
PlanningStep == pc = "tick" /\ state = "PLANNING" /\ pc' = "tick"

\* C32 (planning success ordering): whenever the PLANNING handler ends in
\* SEARCHING, the perception target has been set to the plan's object
\* description and colour and the camera has been acquired, both earlier in the
\* same tick and in that order; when the camera acquisition fails the handler
\* ends in IDLE.
C32_PlanningOrdering ==
    [][ PlanningStep =>
          /\ state' = "SEARCHING" =>
                /\ target'.description = ObjectDescription(current_plan')
                /\ target'.color = ObjectColor(current_plan')
                /\ camera' = "open"
                /\ Before(calls', "set_target", "init_camera")
          /\ "print:camera_failed" \in Range(calls') =>
                state' = "IDLE" /\ camera' # "open" ]_vars

\* PLANNING handed a plan without a colour to SEARCHING: the target keeps the
\* colour of the mission before.
C32_StaleColor ==
    /\ pc = "tick" /\ state = "SEARCHING"
    /\ last = Tick("PLANNING", "planned", "SEARCHING")
    /\ current_plan = "phone"
    /\ target = [ description |-> "phone", color |-> "red" ]
    /\ camera = "open"

\* C33 (camera held during search and approach): at every tick boundary where
\* the state is SEARCHING or APPROACHING the camera has been acquired and not
\* released, also when SEARCHING is re-entered after a failed approach.
C33_CameraHeld ==
    (pc = "tick" /\ state \in { "SEARCHING", "APPROACHING" }) => camera = "open"

\* SEARCHING re-entered after the servo loop lost the target.
C33_Witness ==
    /\ pc = "tick" /\ state = "SEARCHING"
    /\ last.from = "APPROACHING" /\ last.to = "SEARCHING"
    /\ last.outcome # "interrupt"
    /\ camera = "open"

\* The tick boundary at which PLANNING has handed a mission to SEARCHING.
MissionStart == pc = "tick" /\ last = Tick("PLANNING", "planned", "SEARCHING")

\* C34 (breadcrumb trail is per-mission): each time PLANNING hands off to
\* SEARCHING the breadcrumb trail is empty, whatever missions were completed or
\* abandoned before.
C34_TrailPerMission == MissionStart => breadcrumb_trail = << >>

\* C35 (grip check reflects the grasp sequence): after grab_object has closed
\* the gripper to 180 and lifted, the next check_grip reports the object held,
\* so the GRASPING handler ends in RETURNING.
C35_GripReflectsGrasp ==
    (last.from = "GRASPING" /\ last.outcome \notin { "interrupt", "fault" }
       /\ gripper_angle = GripperClosed) =>
        /\ last.outcome = "gripped"
        /\ state = "RETURNING"
        /\ is_holding

\* No step taken in a mission state assigns current_plan.
C36_PlanKept ==
    [][ (state \in MissionStates) => current_plan' = current_plan ]_vars

\* C36 (intent present while a mission is active): whenever the state is
\* SEARCHING, APPROACHING, GRASPING or RETURNING, current_plan is a non-empty
\* plan, and no step taken in one of these states assigns current_plan: it is
\* the plan the last PLANNING tick created until TASK_COMPLETE clears it.
C36_IntentPresent ==
    [](state \in MissionStates => current_plan \in GoodPlans) /\ C36_PlanKept

\* A mission whose plan only a PLANNING tick creates, two phases on.
C36_Witness ==
    /\ pc = "tick" /\ state = "GRASPING"
    /\ last = Tick("APPROACHING", "reached", "GRASPING")
    /\ current_plan = "phone"

\* What a tick records is the work of the handler of the state it began in.
C37_OneHandler == [][ last' # last => last'.from = state ]_vars

\* C37 (handled states only): the state is always one of the seven states the
\* dispatch of run() handles, never LISTENING, and what a tick did is the work
\* of the handler of the state the tick began in.
C37_HandledStatesOnly ==
    [](state \in { "IDLE", "PLANNING", "SEARCHING", "APPROACHING", "GRASPING",
                   "RETURNING", "TASK_COMPLETE" }) /\ C37_OneHandler

\* A whole mission, every handler having run in turn.
C37_Witness ==
    /\ pc = "tick" /\ state = "IDLE"
    /\ visited = FullOrder
    /\ last = Tick("TASK_COMPLETE", "completed", "IDLE")

-----------------------------------------------------------------------------
(* The run loop kept running: a mission followed from IDLE in the            *)
(* continuous-polling mode, the one mode whose search can hand a mission on  *)
(* to APPROACHING. The tick after a handler returned is always taken (the    *)
(* loop of run(), lines 68-85, sleeps half a second and dispatches again),   *)
(* every call a handler makes returns, and the loops inside the handlers    *)
(* go on to their next iteration: weak fairness of the next step.            *)

InitFair ==
    /\ InitHandlers
    /\ state = "IDLE"
    /\ use_laptop_camera = "true"

NextFair ==
    \/ IdleState
    \/ IdleQuit
    \/ PlanningState
    \/ SearchingBegin
    \/ SearchContIter
    \/ ApproachingBegin
    \/ ServoIter
    \/ ServoTimeout
    \/ GraspingState
    \/ ReturningState
    \/ TaskCompleteState
    \/ Interrupt

SpecFair == InitFair /\ [][NextFair]_vars /\ WF_vars(NextFair)

\* C38 (mission eventually ends): once the state has left IDLE it is eventually
\* IDLE again (or the process was interrupted), given only that the run loop
\* keeps taking its next step.
C38_MissionEnds ==
    (state # "IDLE" /\ pc # "exited") ~> (state = "IDLE" \/ pc = "exited")

\* C39 (fault frame condition): a tick in which the handler raised ends in IDLE
\* with no teardown step run and with the camera, the breadcrumb trail, the
\* gripper and current_plan as the handler left them: unchanged, but for the
\* plan the PLANNING handler had assigned before it raised.
C39_FaultFrame ==
    [][ last'.outcome = "fault" =>
          /\ state' = "IDLE" /\ pc' = "tick"
          /\ teardown' = teardown
          /\ camera' = camera
          /\ breadcrumb_trail' = breadcrumb_trail
          /\ gripper_angle' = gripper_angle
          /\ is_holding' = is_holding
          /\ current_plan' = IF state = "PLANNING" THEN "NULLDESC" ELSE current_plan ]_vars

\* The SEARCHING handler raised: back in IDLE with the camera still held and
\* the plan still set.
C39_Witness ==
    /\ last = Tick("SEARCHING", "fault", "IDLE")
    /\ state = "IDLE" /\ pc = "tick"
    /\ camera = "open"
    /\ current_plan \in GoodPlans
    /\ teardown = << >>

\* The bearing of target_xy from position, in [0, 360).
Bearing(position, target_xy) ==
    atan2_deg(target_xy[2] - position[2], target_xy[1] - position[1]) % 360

TurnNeeded(position, heading, target_xy) ==
    Abs(angle_diff(Bearing(position, target_xy), heading)) > turn_threshold

\* C40 (navigate_to_point reaches its target): for a move along an axis of the
\* grid, after navigate_to_point the heading is the bearing from the previous
\* position to the target whenever a turn was needed, and the tracked position
\* is the target.
C40_NavigateReaches ==
    call.fn = "navigate_to_point" =>
        LET position == call.args[1]
            heading == call.args[2]
            target_xy == call.args[3]
        IN  /\ TurnNeeded(position, heading, target_xy) =>
                  call.ret[2] = Bearing(position, target_xy)
            /\ call.ret[1] = target_xy

\* Facing along x at the origin and sent one step up the y axis: the chassis
\* turns to 270 and drives one step down.
C40_WrongWay ==
    call = Called("navigate_to_point", << << 0, 0 >>, 0, << 0, 1 >> >>,
                  << << 0, -1 >>, 270 >>)

====
